---- MODULE Spec2Model ----
(***************************************************************************)
(* Model of the Teensy build (USE_TEENSY) of src/FrskySP.cpp: the sensor   *)
(* side of the Frsky Smart Port protocol.  The state is the module-scope   *)
(* data of the file (sensor table, cursor, sensor id, active count), the   *)
(* UART C3 register, the serial transport (receive queue, bytes written,   *)
(* bytes not yet flushed) and the position of the single thread of control *)
(* inside begin / poll / sendData / CRC.                                   *)
(*                                                                         *)
(* Numbers: a byte is 0..255, a uint16_t is 0..65535, an int32_t is its    *)
(* signed value.  A uint32_t (the table's val) is kept as its four bytes,  *)
(* low byte first, because its upper half does not fit the checker's       *)
(* integers; U32ToInt32 is the conversion the call at line 147 performs.   *)
(* The 64-bit word of the packet union is kept as its eight bytes in       *)
(* memory order (little-endian Cortex-M4, the only build of this branch).  *)
(***************************************************************************)
EXTENDS Integers, Sequences, FiniteSets

\* ---------------------------------------------------------------- constants

MAX_SENSORS == 8
SPORT_FRAME_BEGIN == 126
SPORT_BYTE_STUFF_MARKER == 125
SPORT_BYTE_STUFF_MASK == 32
UART_C3_TXDIR == 32
UART_C3_TXINV == 16
DATA_FRAME_TYPE == 16
PACKET_SIZE == 8

\* ------------------------------------------------------------------- bounds

\* Capacity of the serial receive queue.
RxCap == 2
\* setSensorData is called with idx in 0..MaxSlot-1.
MaxSlot == 2
\* Number of sample byte values the checksum inputs are drawn from.
NumSamples == 3

\* ------------------------------------------------------------ bit operations

RECURSIVE BitAnd(_, _)
BitAnd(a, b) ==
    IF a = 0 \/ b = 0 THEN 0
    ELSE (a % 2) * (b % 2) + 2 * BitAnd(a \div 2, b \div 2)

RECURSIVE BitOr(_, _)
BitOr(a, b) ==
    IF a = 0 THEN b
    ELSE IF b = 0 THEN a
    ELSE (IF a % 2 = 1 \/ b % 2 = 1 THEN 1 ELSE 0) + 2 * BitOr(a \div 2, b \div 2)

RECURSIVE BitXor(_, _)
BitXor(a, b) ==
    IF a = 0 THEN b
    ELSE IF b = 0 THEN a
    ELSE ((a + b) % 2) + 2 * BitXor(a \div 2, b \div 2)

\* Byte k of the two's-complement representation of the integer x (any width:
\* \div rounds down, so a negative x sign-extends).
RECURSIVE ByteOf(_, _)
ByteOf(x, k) == IF k = 0 THEN x % 256 ELSE ByteOf(x \div 256, k - 1)

\* uint32_t -> int32_t, on the four bytes of the uint32_t (low byte first).
U32ToInt32_LowHalf(w) == w[0] + 256 * w[1]

U32ToInt32(w) ==
    w[0] + 256 * w[1] + 65536 * w[2]
      + 16777216 * (IF w[3] >= 128 THEN w[3] - 256 ELSE w[3])

\* The four bytes of a uint32_t given as a natural below 2^31.
U32(n) == [k \in 0..3 |-> ByteOf(n, k)]

\* ----------------------------------------------------------------- checksum

\* One iteration of CRC's loop (lines 58-62) on the 16-bit accumulator crc.
CRCStep_NoFold(crc, b) == (crc + b) % 256

CRCStep(crc, b) ==
    LET a1 == crc + b
        a2 == a1 + (a1 \div 256)
        a3 == a2 % 256
        a4 == a3 + (a3 \div 256)
    IN  a4 % 256

\* The accumulator after the first k bytes of p.  (The accumulator of the
\* previous iteration is bound as a value, so it is computed once.)
RECURSIVE CRCAcc(_, _)
CRCAcc(p, k) ==
    IF k = 0 THEN 0
    ELSE CHOOSE r \in {CRCStep(prev, p[k - 1]) : prev \in {CRCAcc(p, k - 1)}} :
             TRUE

\* return ~crc, converted to uint8_t.
CRC_TwosComplement(p) == (0 - CRCAcc(p, PACKET_SIZE)) % 256

CRC(p) == (-1 - CRCAcc(p, PACKET_SIZE)) % 256

\* ------------------------------------------------------------- packet codec

\* packet.uint64 = (uint64_t) type | (uint64_t) id << 8 | (int64_t) val << 24,
\* as the eight bytes of the union.
PackWord_BigEndian(type, id, val) ==
    [k \in 0..7 |->
        BitOr(BitOr(ByteOf(type, 7 - k),
                    IF 7 - k < 1 THEN 0 ELSE ByteOf(id, 7 - k - 1)),
              IF 7 - k < 3 THEN 0 ELSE ByteOf(val, 7 - k - 3))]

PackWord(type, id, val) ==
    [k \in 0..7 |->
        BitOr(BitOr(ByteOf(type, k),
                    IF k < 1 THEN 0 ELSE ByteOf(id, k - 1)),
              IF k < 3 THEN 0 ELSE ByteOf(val, k - 3))]

\* packet.byte[7] = CRC (packet.byte): CRC reads all eight bytes of the word.
BuildPacket(type, id, val) ==
    LET w == PackWord(type, id, val)
    IN  [w EXCEPT ![7] = CRC(w)]

\* The bytes one iteration of sendData's loop hands to sportSerial.write.
Stuff_MarkerOnly(v) ==
    IF v = SPORT_BYTE_STUFF_MARKER
    THEN <<SPORT_BYTE_STUFF_MARKER, BitXor(v, SPORT_BYTE_STUFF_MASK)>>
    ELSE <<v>>

Stuff_NoMask(v) ==
    IF v = SPORT_FRAME_BEGIN \/ v = SPORT_BYTE_STUFF_MARKER
    THEN <<SPORT_BYTE_STUFF_MARKER, v>>
    ELSE <<v>>

Stuff(v) ==
    IF v = SPORT_FRAME_BEGIN \/ v = SPORT_BYTE_STUFF_MARKER
    THEN <<SPORT_BYTE_STUFF_MARKER, BitXor(v, SPORT_BYTE_STUFF_MASK)>>
    ELSE <<v>>

\* -------------------------------------------------------------------- state

VARIABLES
    sensorTable,     \* _sensorTable: slot index -> [id, val]
    sensorTableIdx,  \* _sensorTableIdx: the round-robin cursor
    sensorId,        \* _sensorId
    sensorValues,    \* _sensorValues: the number of active slots
    uartC3,          \* sportSerial_UART_C3: bit 0x20 drives the line
    rx,              \* sportSerial: bytes received and not yet read
    written,         \* sportSerial: bytes written since sendData was entered
    unflushed,       \* sportSerial: bytes written and not yet flushed
    pc,              \* where the thread of control is
    ret,             \* sendData's caller: "poll" or "main"
    sType,           \* sendData's parameter type
    sId,             \* sendData's parameter id
    sVal,            \* sendData's parameter val
    packet,          \* sendData's local packet (CRC's argument)
    crc,             \* the value CRC last returned to its caller (-1: none)
    crcPrev,         \* the value it returned before the caller's last edit
    edited,          \* the caller's last edit: <<position, old byte>>
    lastRead,        \* history: the dispatcher's last read, <<state, byte>>
    answers,         \* history: the last answered polls, oldest first
    inputEnded       \* has the receiver sent its last byte?

vars == <<sensorTable, sensorTableIdx, sensorId, sensorValues, uartC3, rx,
          written, unflushed, pc, ret, sType, sId, sVal, packet, crc,
          crcPrev, edited, lastRead, answers, inputEnded>>

tableVars == <<sensorTable, sensorTableIdx, sensorId, sensorValues>>
frameVars == <<ret, sType, sId, sVal, packet>>
crcVars == <<crc, crcPrev, edited>>

\* ------------------------------------------------------------------- inputs

\* Sensor ids begin is called with.
SensorIds == {6, SPORT_FRAME_BEGIN}
\* Bytes the receiver sends: the frame marker, the sensor id, another id.
InputBytes == {SPORT_FRAME_BEGIN, 6, 0}
\* The logical id the application stores in slot idx.
SlotId(idx) == 1536 + 16 * idx
\* The calls of setSensorData: slot idx gets (SlotId(idx), 100 * (idx + 1)),
\* and slot 0 is also updated to the value 0x800000C8.
HighVal == [k \in 0..3 |-> IF k = 0 THEN 200 ELSE IF k = 3 THEN 128 ELSE 0]
SetArgs ==
    {<<idx, SlotId(idx), U32(100 * (idx + 1))>> : idx \in 0..(MaxSlot - 1)}
      \cup {<<0, SlotId(0), HighVal>>}
\* Arguments of a direct call of sendData.
SendTypes == {DATA_FRAME_TYPE, SPORT_FRAME_BEGIN}
SendIds == {1536, 32126, 0}
SendVals == {1234, 0, -1, 113, 114, 126, -2147483647 - 1, 2122153597, -131}
\* Byte values the checksum's inputs are made of.
SampleList == <<0, 255, 1, 126, 125>>
ByteSamples == {SampleList[k] : k \in 1..NumSamples}
\* Further checksum inputs: buffers of spread byte values, a * k + b mod 256.
PatternBufs ==
    {[k \in 0..(PACKET_SIZE - 1) |-> (a * k + b) % 256] :
        a \in {1, 37, 85, 128, 200, 255}, b \in {0, 17, 99, 128, 250}}

\* Length of the history of answered polls.
MaxLog == MaxSlot + 1

TxDir == BitAnd(uartC3, UART_C3_TXDIR) # 0
ZeroPacket == [k \in 0..7 |-> 0]
ZeroTable == [k \in 0..(MAX_SENSORS - 1) |-> [id |-> 0, val |-> U32(0)]]

\* --------------------------------------------------------------------- Init

\* Static initialisation (lines 46-49); nothing has been called yet.
Init ==
    /\ sensorTable = ZeroTable
    /\ sensorTableIdx = 0
    /\ sensorId = 0
    /\ sensorValues = 0
    /\ uartC3 = 0
    /\ rx = <<>>
    /\ written = <<>>
    /\ unflushed = 0
    /\ pc = "init"
    /\ ret = "main"
    /\ sType = 0
    /\ sId = 0
    /\ sVal = 0
    /\ packet = ZeroPacket
    /\ crc = -1
    /\ crcPrev = -1
    /\ edited = <<>>
    /\ lastRead = <<>>
    /\ answers = <<>>
    /\ inputEnded = FALSE

\* ---------------------------------------------------------------- begin

begin(sid, n) ==
    /\ pc = "init"
    /\ sensorId' = sid
    /\ sensorValues' = n
    /\ uartC3' = UART_C3_TXINV
    /\ pc' = "main"
    /\ UNCHANGED <<sensorTable, sensorTableIdx, rx, written, unflushed,
                   frameVars, crcVars, lastRead, answers,
                   inputEnded>>

\* -------------------------------------------------------- setSensorData

setSensorData_OnlyActive(idx, id, val) ==
    /\ pc = "main"
    /\ idx < sensorValues
    /\ sensorTable' = [sensorTable EXCEPT ![idx] = [id |-> id, val |-> val]]
    /\ UNCHANGED <<sensorTableIdx, sensorId, sensorValues, uartC3, rx, written,
                   unflushed, pc, frameVars, crcVars, lastRead, answers,
                   inputEnded>>

setSensorData(idx, id, val) ==
    /\ pc = "main"
    /\ sensorTable' = [sensorTable EXCEPT ![idx] = [id |-> id, val |-> val]]
    /\ UNCHANGED <<sensorTableIdx, sensorId, sensorValues, uartC3, rx, written,
                   unflushed, pc, frameVars, crcVars, lastRead, answers,
                   inputEnded>>

\* ------------------------------------------------------------ transport

\* The receiver puts one more byte on the line; the UART queues it.
Arrive(b) ==
    /\ pc # "init"
    /\ ~inputEnded
    /\ Len(rx) < RxCap
    /\ rx' = Append(rx, b)
    /\ UNCHANGED <<tableVars, uartC3, written, unflushed, pc, frameVars,
                   crcVars, lastRead, answers,
                   inputEnded>>

\* ----------------------------------------------------------------- poll

\* The application's loop calls poll().
PollEnter ==
    /\ pc = "main"
    /\ pc' = "poll_avail"
    /\ UNCHANGED <<tableVars, uartC3, rx, written, unflushed, frameVars,
                   crcVars, lastRead, answers,
                   inputEnded>>

\* Line 137, nothing available: the while loop ends and poll returns.
PollReturn_Early ==
    /\ pc = "poll_avail"
    /\ pc' = "main"
    /\ UNCHANGED <<tableVars, uartC3, rx, written, unflushed, frameVars,
                   crcVars, lastRead, answers, inputEnded>>

PollReturn ==
    /\ pc = "poll_avail"
    /\ rx = <<>>
    /\ pc' = "main"
    /\ UNCHANGED <<tableVars, uartC3, rx, written, unflushed, frameVars,
                   crcVars, lastRead, answers,
                   inputEnded>>

\* Lines 137-138: a byte is available and is read in the seek state.
PollSeek ==
    /\ pc = "poll_avail"
    /\ rx # <<>>
    /\ rx' = Tail(rx)
    /\ pc' = IF Head(rx) = SPORT_FRAME_BEGIN THEN "poll_wait" ELSE "poll_avail"
    /\ lastRead' = <<"seek", Head(rx)>>
    /\ UNCHANGED <<tableVars, uartC3, written, unflushed, frameVars, crcVars,
                   answers,
                   inputEnded>>

\* Does the byte read at line 141 make poll answer?
Matches_IgnoreCount(b) == b = sensorId

Matches_AnyId(b) == sensorValues # 0

Matches(b) == b = sensorId /\ sensorValues # 0

\* Lines 140-147: wait for the next byte, read it, and on a match call
\* sendData with the slot at the cursor.
PollId_MarkerRestarts ==
    /\ pc = "poll_wait"
    /\ rx # <<>>
    /\ rx' = Tail(rx)
    /\ IF Matches(Head(rx))
       THEN /\ sType' = DATA_FRAME_TYPE
            /\ sId' = sensorTable[sensorTableIdx].id
            /\ sVal' = U32ToInt32(sensorTable[sensorTableIdx].val)
            /\ ret' = "poll"
            /\ written' = <<>>
            /\ pc' = "send_build"
       ELSE /\ pc' = IF Head(rx) = SPORT_FRAME_BEGIN
                     THEN "poll_wait" ELSE "poll_avail"
            /\ UNCHANGED <<sType, sId, sVal, ret, written>>
    /\ lastRead' = <<"id", Head(rx)>>
    /\ UNCHANGED <<tableVars, uartC3, unflushed, packet, crcVars, answers,
                   inputEnded>>

PollId_Timeout ==
    \/ /\ pc = "poll_wait"
       /\ rx = <<>>
       /\ pc' = "poll_avail"
       /\ UNCHANGED <<tableVars, uartC3, rx, written, unflushed, frameVars,
                      crcVars, lastRead, answers,
                   inputEnded>>
    \/ /\ pc = "poll_wait"
       /\ rx # <<>>
       /\ rx' = Tail(rx)
       /\ IF Matches(Head(rx))
          THEN /\ sType' = DATA_FRAME_TYPE
               /\ sId' = sensorTable[sensorTableIdx].id
               /\ sVal' = U32ToInt32(sensorTable[sensorTableIdx].val)
               /\ ret' = "poll"
               /\ written' = <<>>
               /\ pc' = "send_build"
          ELSE /\ pc' = "poll_avail"
               /\ UNCHANGED <<sType, sId, sVal, ret, written>>
       /\ lastRead' = <<"id", Head(rx)>>
       /\ UNCHANGED <<tableVars, uartC3, unflushed, packet, crcVars, answers,
                   inputEnded>>

PollId ==
    /\ pc = "poll_wait"
    /\ rx # <<>>
    /\ rx' = Tail(rx)
    /\ IF Matches(Head(rx))
       THEN /\ sType' = DATA_FRAME_TYPE
            /\ sId' = sensorTable[sensorTableIdx].id
            /\ sVal' = U32ToInt32(sensorTable[sensorTableIdx].val)
            /\ ret' = "poll"
            /\ written' = <<>>
            /\ pc' = "send_build"
       ELSE /\ pc' = "poll_avail"
            /\ UNCHANGED <<sType, sId, sVal, ret, written>>
    /\ lastRead' = <<"id", Head(rx)>>
    /\ UNCHANGED <<tableVars, uartC3, unflushed, packet, crcVars, answers,
                   inputEnded>>

\* Is every active slot one the application has stored data in?
AllSet == \A k \in 0..(sensorValues - 1) : sensorTable[k].id = SlotId(k)

LastN(s, n) == IF Len(s) <= n THEN s ELSE SubSeq(s, Len(s) - n + 1, Len(s))

\* The cursor after an answered poll.
NextIdx_NoWrap(idx, n) == idx + 1

NextIdx_Stay(idx, n) == idx

NextIdx(idx, n) == (idx + 1) % n

\* Line 149, after sendData has returned.
PollAdvance ==
    /\ pc = "poll_adv"
    /\ sensorTableIdx' = NextIdx(sensorTableIdx, sensorValues)
    /\ pc' = "poll_avail"
    /\ UNCHANGED <<sensorTable, sensorId, sensorValues, uartC3, rx, written,
                   unflushed, frameVars, crcVars, lastRead, answers,
                   inputEnded>>

\* ------------------------------------------------------------- sendData

\* Lines 82-83.
SendBuild ==
    /\ pc = "send_build"
    /\ packet' = BuildPacket(sType, sId, sVal)
    /\ pc' = "send_txon"
    /\ UNCHANGED <<tableVars, uartC3, rx, written, unflushed, ret, sType, sId,
                   sVal, crcVars, lastRead, answers,
                   inputEnded>>

\* Line 85.
SendTxOn ==
    /\ pc = "send_txon"
    /\ uartC3' = BitOr(uartC3, UART_C3_TXDIR)
    /\ pc' = "send_loop"
    /\ UNCHANGED <<tableVars, rx, written, unflushed, frameVars, crcVars,
                   lastRead, answers,
                   inputEnded>>

\* The bytes iterations k, k+1, .., 7 of the loop write, in order.
RECURSIVE StuffFrom_RawChecksum(_, _)
StuffFrom_RawChecksum(p, k) ==
    IF k >= PACKET_SIZE THEN <<>>
    ELSE IF k = PACKET_SIZE - 1 THEN <<p[k]>>
    ELSE Stuff(p[k]) \o StuffFrom_RawChecksum(p, k + 1)

RECURSIVE StuffFrom(_, _)
StuffFrom(p, k) ==
    IF k >= PACKET_SIZE THEN <<>> ELSE Stuff(p[k]) \o StuffFrom(p, k + 1)

\* Lines 87-97: the loop, i = 0 .. 7.
SendWrite ==
    /\ pc = "send_loop"
    /\ written' = written \o StuffFrom(packet, 0)
    /\ unflushed' = unflushed + Len(StuffFrom(packet, 0))
    /\ pc' = "send_flush"
    /\ UNCHANGED <<tableVars, uartC3, rx, frameVars, crcVars, lastRead, answers,
                   inputEnded>>

SendFlush_NoWait ==
    /\ pc = "send_flush"
    /\ pc' = "send_txoff"
    /\ UNCHANGED <<tableVars, uartC3, rx, written, unflushed, frameVars,
                   crcVars, lastRead, answers,
                   inputEnded>>

\* Line 99.
SendFlush ==
    /\ pc = "send_flush"
    /\ unflushed' = 0
    /\ pc' = "send_txoff"
    /\ UNCHANGED <<tableVars, uartC3, rx, written, frameVars, crcVars, lastRead, answers,
                   inputEnded>>

\* Line 100, and the return to the caller: the parameters and the local die.
\* A packet sent for poll is one more answered poll of the history.
SendTxOff ==
    /\ pc = "send_txoff"
    /\ uartC3' = BitAnd(uartC3, 255 - UART_C3_TXDIR)
    /\ pc' = IF ret = "poll" THEN "poll_adv" ELSE "main"
    /\ answers' = IF ret = "poll"
                  THEN LastN(Append(answers,
                                    [id    |-> packet[1] + 256 * packet[2],
                                     ready |-> AllSet,
                                     first |-> answers = <<>>]), MaxLog)
                  ELSE answers
    /\ sType' = 0
    /\ sId' = 0
    /\ sVal' = 0
    /\ packet' = ZeroPacket
    /\ UNCHANGED <<tableVars, rx, written, unflushed, ret, crcVars, lastRead,
                   inputEnded>>

\* ------------------------------------------------------------------ Spec

Next ==
    \/ \E sid \in SensorIds, n \in 0..MAX_SENSORS : begin(sid, n)
    \/ \E a \in SetArgs : setSensorData(a[1], a[2], a[3])
    \/ \E b \in InputBytes : Arrive(b)
    \/ PollEnter
    \/ PollSeek
    \/ PollId
    \/ PollAdvance
    \/ PollReturn
    \/ SendBuild
    \/ SendTxOn
    \/ SendWrite
    \/ SendFlush
    \/ SendTxOff

Spec == Init /\ [][Next]_vars

\* -------------------------------------------------------------- SpecSend
\* A direct call sendData(type, id, val) after begin(6, 0), for every
\* argument triple of SendTypes x SendIds x SendVals.

InitSend ==
    /\ sensorTable = ZeroTable
    /\ sensorTableIdx = 0
    /\ sensorId = 6
    /\ sensorValues = 0
    /\ uartC3 = UART_C3_TXINV
    /\ rx = <<>>
    /\ written = <<>>
    /\ unflushed = 0
    /\ pc = "send_build"
    /\ ret = "main"
    /\ sType \in SendTypes
    /\ sId \in SendIds
    /\ sVal \in SendVals
    /\ packet = ZeroPacket
    /\ crc = -1
    /\ crcPrev = -1
    /\ edited = <<>>
    /\ lastRead = <<>>
    /\ answers = <<>>
    /\ inputEnded = FALSE

NextSend ==
    \/ SendBuild
    \/ SendTxOn
    \/ SendWrite
    \/ SendFlush
    \/ SendTxOff

SpecSend == InitSend /\ [][NextSend]_vars

\* --------------------------------------------------------------- SpecCRC
\* A caller runs CRC on an 8-byte buffer (every buffer made of the sample
\* bytes, and the pattern buffers), then changes one byte of the buffer to
\* a sample byte and runs CRC again.

InitCRC ==
    /\ sensorTable = ZeroTable
    /\ sensorTableIdx = 0
    /\ sensorId = 0
    /\ sensorValues = 0
    /\ uartC3 = 0
    /\ rx = <<>>
    /\ written = <<>>
    /\ unflushed = 0
    /\ pc = "crc_call"
    /\ ret = "main"
    /\ sType = 0
    /\ sId = 0
    /\ sVal = 0
    /\ packet \in [0..(PACKET_SIZE - 1) -> ByteSamples] \cup PatternBufs
    /\ crc = -1
    /\ crcPrev = -1
    /\ edited = <<>>
    /\ lastRead = <<>>
    /\ answers = <<>>
    /\ inputEnded = FALSE

\* Lines 55-65 on the buffer.
CrcCall ==
    /\ pc = "crc_call"
    /\ crc' = CRC(packet)
    /\ pc' = "crc_done"
    /\ UNCHANGED <<tableVars, uartC3, rx, written, unflushed, frameVars,
                   crcPrev, edited, lastRead, answers,
                   inputEnded>>

\* The caller replaces byte k of the buffer by x; lines 55-65 on the result.
CrcEdit(k, x) ==
    /\ pc = "crc_done"
    /\ x # packet[k]
    /\ packet' = [packet EXCEPT ![k] = x]
    /\ edited' = <<k, packet[k]>>
    /\ crcPrev' = crc
    /\ crc' = CRC(packet')
    /\ pc' = "crc_edited"
    /\ UNCHANGED <<tableVars, uartC3, rx, written, unflushed, ret, sType, sId,
                   sVal, lastRead, answers,
                   inputEnded>>

NextCRC ==
    \/ CrcCall
    \/ \E k \in 0..(PACKET_SIZE - 1), x \in ByteSamples : CrcEdit(k, x)

SpecCRC == InitCRC /\ [][NextCRC]_vars

\* -------------------------------------------------------------- SpecLive
\* The application's loop with a receiver that may stop sending, and a
\* processor that takes a step of poll or sendData whenever one is possible.

\* The receiver has sent its last byte.
InputEnds ==
    /\ pc # "init"
    /\ ~inputEnded
    /\ inputEnded' = TRUE
    /\ UNCHANGED <<tableVars, uartC3, rx, written, unflushed, pc, frameVars,
                   crcVars, lastRead, answers>>

\* The steps inside poll, sendData included.
PollStep ==
    \/ PollSeek
    \/ PollId
    \/ PollAdvance
    \/ PollReturn
    \/ SendBuild
    \/ SendTxOn
    \/ SendWrite
    \/ SendFlush
    \/ SendTxOff

\* The calls the application makes here: begin with up to two slots, and
\* one update of slot 0.
NextLive ==
    \/ \E sid \in SensorIds, n \in 0..2 : begin(sid, n)
    \/ setSensorData(0, SlotId(0), HighVal)
    \/ \E b \in InputBytes : Arrive(b)
    \/ InputEnds
    \/ PollEnter
    \/ PollStep

SpecLive == Init /\ [][NextLive]_vars /\ WF_vars(PollStep)

\* --------------------------------------------------------------- SpecSet
\* setSensorData on every slot of the table.  The starting states are those
\* of the application's loop after begin(sid, n) and any number of answered
\* polls: the cursor is anywhere below n.

SetAllArgs ==
    {<<idx, SlotId(idx), U32(100 * (idx + 1))>> : idx \in 0..(MAX_SENSORS - 1)}
      \cup {<<0, SlotId(0), HighVal>>}

\* The history after k polls answered from the empty table, oldest first.
AnswersAfter(k) ==
    LastN([j \in 1..k |-> [id |-> 0, ready |-> FALSE, first |-> j = 1]],
          MaxLog)

\* begin(sid, n), then as many answered polls as the cursor counts, the last
\* read being the id byte of the last of them, then back in the
\* application's loop: the bytes written since sendData was last entered are
\* the packet of the empty slot.
InitSet ==
    /\ sensorTable = ZeroTable
    /\ sensorId \in SensorIds
    /\ sensorValues \in 0..MAX_SENSORS
    /\ sensorTableIdx \in 0..(MAX_SENSORS - 1)
    /\ sensorTableIdx = 0 \/ sensorTableIdx < sensorValues
    /\ uartC3 = UART_C3_TXINV
    /\ rx = <<>>
    /\ written = IF sensorTableIdx = 0 THEN <<>>
                 ELSE StuffFrom(BuildPacket(DATA_FRAME_TYPE, 0, 0), 0)
    /\ unflushed = 0
    /\ pc = "main"
    /\ ret = IF sensorTableIdx = 0 THEN "main" ELSE "poll"
    /\ sType = 0
    /\ sId = 0
    /\ sVal = 0
    /\ packet = ZeroPacket
    /\ crc = -1
    /\ crcPrev = -1
    /\ edited = <<>>
    /\ lastRead = IF sensorTableIdx = 0 THEN <<>> ELSE <<"id", sensorId>>
    /\ answers = AnswersAfter(sensorTableIdx)
    /\ inputEnded = FALSE

NextSet == \E a \in SetAllArgs : setSensorData(a[1], a[2], a[3])

SpecSet == InitSet /\ [][NextSet]_vars

\* --------------------------------------------------------------- SpecAll
\* Both ways into sendData: the application's loop of Spec, and the direct
\* call of SpecSend followed by the application's loop.

SpecAll == (Init \/ InitSend) /\ [][Next]_vars

\* ================================================================ claims

SlotIds(n) == {SlotId(k) : k \in 0..(n - 1)}
SlotOf(id) == (id - SlotId(0)) \div 16

\* C1: round-robin order.  Once slots 0..n-1 hold the application's data,
\* the answered polls transmit the slots in increasing index order modulo n
\* (slot 0 first after begin), any n consecutive answers transmit each of
\* the n slots exactly once, and the (n+1)th repeats the first.
C1_RoundRobinOrder ==
    LET n == sensorValues
        L == Len(answers)
    IN  \A j \in 1..L :
          answers[j].ready =>
            /\ answers[j].id \in SlotIds(n)
            /\ answers[j].first => answers[j].id = SlotId(0)
            /\ j < L =>
                 answers[j + 1].id = SlotId((SlotOf(answers[j].id) + 1) % n)
            /\ j + n <= L =>
                 /\ answers[j + n].id = answers[j].id
                 /\ {answers[m].id : m \in j..(j + n - 1)} = SlotIds(n)
                 /\ \A a, b \in j..(j + n - 1) :
                      a # b => answers[a].id # answers[b].id

\* C1 witness: two active slots, both set before the first answer, and
\* three answered polls (n + 1 of them) since begin.
C1_Witness ==
    /\ sensorValues = 2
    /\ Len(answers) = 3
    /\ answers[1].first
    /\ answers[1].ready

\* C2: a frame marker read in the seek state and followed by a byte other
\* than sensorId: the step that reads that byte writes nothing, leaves the
\* direction bit and the cursor alone and ends in the seek state.
C2_NonMatchingIgnored ==
    [][(pc = "poll_wait" /\ pc' # "poll_wait" /\ Head(rx) # sensorId) =>
          /\ pc' = "poll_avail"
          /\ written' = written
          /\ unflushed' = unflushed
          /\ uartC3' = uartC3
          /\ sensorTableIdx' = sensorTableIdx
          /\ answers' = answers]_vars

\* C2 witness: the dispatcher has just read a non-matching id byte while
\* slots are active, and is back at the loop head.
C2_Witness ==
    /\ pc = "poll_avail"
    /\ sensorValues > 0
    /\ Len(lastRead) = 2
    /\ lastRead[1] = "id"
    /\ lastRead[2] # sensorId

\* C3: with no active slot nothing is ever sent: no byte written, the
\* direction never asserted, sendData and the cursor update never reached,
\* the cursor still 0.
C3_InactiveNeverSends ==
    sensorValues = 0 =>
        /\ written = <<>>
        /\ unflushed = 0
        /\ ~TxDir
        /\ sensorTableIdx = 0
        /\ answers = <<>>
        /\ pc \in {"init", "main", "poll_avail", "poll_wait"}

\* C3 witness: begin(sensorId, 0) was called and the dispatcher has read
\* the marker followed by the matching sensor id.
C3_Witness ==
    /\ pc = "poll_avail"
    /\ sensorValues = 0
    /\ lastRead = <<"id", sensorId>>

\* C4: after begin, the cursor is below the active count whenever that is
\* positive, and the active count is at most MAX_SENSORS, so the slot the
\* dispatcher reads is inside the table.
C4_CursorInvariant ==
    pc # "init" =>
        /\ sensorValues \in 0..MAX_SENSORS
        /\ sensorTableIdx \in 0..(MAX_SENSORS - 1)
        /\ sensorValues > 0 => sensorTableIdx < sensorValues

\* C4 witness: all eight slots active and the dispatcher has just read the
\* last one for an answer.
C4_Witness ==
    /\ sensorValues = MAX_SENSORS
    /\ sensorTableIdx = MAX_SENSORS - 1
    /\ pc = "send_build"
    /\ ret = "poll"

\* C5: bus-direction framing.  Bytes are written only while the transmit
\* direction is asserted; it is asserted before the first byte; the flush
\* comes after all the packet's bytes, with the direction still asserted;
\* the direction is released only when nothing is unflushed; and it is
\* released whenever control is outside sendData.
C5_BusDirectionFraming ==
    [][/\ (written' # written /\ written' # <<>>) => (TxDir /\ TxDir')
       /\ unflushed' > unflushed => (TxDir /\ TxDir')
       /\ (~TxDir /\ TxDir') => (written = <<>> /\ unflushed = 0)
       /\ unflushed' < unflushed =>
            (TxDir /\ TxDir' /\ Len(written) >= PACKET_SIZE /\ unflushed' = 0)
       /\ (TxDir /\ ~TxDir') =>
            (unflushed = 0 /\ Len(written) >= PACKET_SIZE)
       /\ pc' \in {"main", "poll_avail", "poll_wait", "poll_adv"} => ~TxDir'
      ]_vars

\* C5 witness: a packet has been sent for a poll and poll has returned.
C5_Witness ==
    /\ pc = "main"
    /\ answers # <<>>
    /\ Len(written) >= PACKET_SIZE
    /\ unflushed = 0
    /\ ~TxDir

\* Has sendData built its packet (lines 82-83 done, not yet returned)?
Built == pc \in {"send_txon", "send_loop", "send_flush", "send_txoff"}

\* Byte k of the 32-bit two's-complement representation of v, by the
\* textbook rule: a negative v is the bitwise complement of -(v + 1).
TwosComplementByte(v, k) ==
    IF v >= 0
    THEN (v \div (256 ^ k)) % 256
    ELSE 255 - (((-(v + 1)) \div (256 ^ k)) % 256)

\* C6: packet layout.  Byte 0 is the type, bytes 1..2 the logical id low
\* byte first, bytes 3..6 the 32-bit two's-complement value low byte first,
\* also for a negative value; (0x10, 0x0600, 1234) gives 10 00 06 D2 04 00 00.
C6_PacketLayout ==
    Built =>
        /\ packet[0] = sType
        /\ packet[1] = sId % 256
        /\ packet[2] = sId \div 256
        /\ \A k \in 0..3 : packet[3 + k] = TwosComplementByte(sVal, k)
        /\ (sType = 16 /\ sId = 1536 /\ sVal = 1234) =>
              /\ packet[0] = 16
              /\ packet[1] = 0
              /\ packet[2] = 6
              /\ packet[3] = 210
              /\ packet[4] = 4
              /\ packet[5] = 0
              /\ packet[6] = 0

\* C6 witness: a packet built from a negative value and a two-byte id.
C6_Witness ==
    /\ Built
    /\ sVal < 0
    /\ sId > 255
    /\ packet[6] >= 128

\* C7: checksum placeholder.  Byte 7 of the built packet is the checksum of
\* bytes 0..6 followed by a 0 byte, also when the value is negative and the
\* word handed to CRC carries 0xFF in byte 7.
C7_ChecksumPlaceholder ==
    Built => packet[7] = CRC([packet EXCEPT ![7] = 0])

\* C7 witness: a packet built from a negative value, whose word had 0xFF in
\* byte 7 when CRC read it.
C7_Witness ==
    /\ Built
    /\ sVal < 0
    /\ PackWord(sType, sId, sVal)[7] = 255

\* The checksum as the design document words it: the carry is folded back
\* in only when the accumulator exceeds 8 bits, twice; the result is the
\* bitwise complement of the low 8 bits.
FoldIfCarry(a) == IF a > 255 THEN (a + (a \div 256)) % 256 ELSE a
RECURSIVE RefAcc(_, _)
RefAcc(p, k) ==
    IF k = 0 THEN 0 ELSE FoldIfCarry(FoldIfCarry(RefAcc(p, k - 1) + p[k - 1]))
RefChecksum(p) == BitXor(RefAcc(p, PACKET_SIZE), 255)

\* C8: checksum algorithm.  What CRC returned for its input is the
\* complement (low 8 bits) of the accumulator, the accumulator is a byte
\* after every input byte, and the result is that of the conditional-fold
\* reference.
C8_ChecksumAlgorithm ==
    pc = "crc_done" =>
        /\ \A k \in 0..PACKET_SIZE : CRCAcc(packet, k) \in 0..255
        /\ \A k \in 0..PACKET_SIZE : CRCAcc(packet, k) = RefAcc(packet, k)
        /\ crc \in 0..255
        /\ crc = BitXor(CRCAcc(packet, PACKET_SIZE), 255)
        /\ crc = RefChecksum(packet)

\* C8 witness: CRC has run on a buffer on which a sum exceeded 8 bits.
C8_Witness ==
    /\ pc = "crc_done"
    /\ \E k \in 0..(PACKET_SIZE - 1) : CRCAcc(packet, k) + packet[k] > 255

\* The bytes of the buffer other than the edited one are not all zero.
OthersNonZero == \E j \in 0..(PACKET_SIZE - 1) : j # edited[1] /\ packet[j] # 0
\* The edit replaced 0x00 by 0xFF or 0xFF by 0x00.
ZeroFFSwap == {edited[2], packet[edited[1]]} = {0, 255}

\* C9 as claimed: replacing any one byte by a different value changes the
\* checksum.
C9_Original_AnyEditChangesChecksum ==
    pc = "crc_edited" => crc # crcPrev

\* C9 amended: replacing one byte by a different value changes the checksum
\* except when the two values are 0x00 and 0xFF and some other byte of the
\* input is not zero; then the checksum is the same.
C9_EditChangesChecksumUnlessZeroFF ==
    pc = "crc_edited" => (crc = crcPrev <=> (ZeroFFSwap /\ OthersNonZero))

\* C9 witness: an edit between 0x00 and 0xFF in an otherwise zero buffer,
\* the one 0x00/0xFF edit that still changes the checksum.
C9_Witness ==
    /\ pc = "crc_edited"
    /\ ZeroFFSwap
    /\ ~OthersNonZero
    /\ crc # crcPrev

\* The wire image of the first k packet bytes, with the two escapes
\* written out: 0x7E -> 7D 5E, 0x7D -> 7D 5D.
RECURSIVE WireImage(_, _)
WireImage(p, k) ==
    IF k = 0 THEN <<>>
    ELSE WireImage(p, k - 1)
           \o (IF p[k - 1] = 126 THEN <<125, 94>>
               ELSE IF p[k - 1] = 125 THEN <<125, 93>>
               ELSE <<p[k - 1]>>)
Markers(p) == {k \in 0..(PACKET_SIZE - 1) : p[k] \in {125, 126}}

\* C10: stuffing.  When the loop is done the bytes written are, for each of
\* the eight packet bytes in order, the byte itself or 0x7D and the byte
\* XOR 0x20 when it is 0x7E or 0x7D, and nothing else: 8 + (markers) bytes.
\* Before the loop nothing is written.
C10_StuffingEscapesMarkers ==
    /\ pc \in {"send_flush", "send_txoff"} =>
          /\ written = WireImage(packet, PACKET_SIZE)
          /\ Len(written) = PACKET_SIZE + Cardinality(Markers(packet))
          /\ unflushed \in {0, Len(written)}
    /\ pc \in {"send_build", "send_txon", "send_loop"} => written = <<>>

\* C10 witness: a packet holding both markers and ordinary bytes has been
\* written.
C10_Witness ==
    /\ pc = "send_flush"
    /\ \E k \in Markers(packet) : packet[k] = 126
    /\ \E k \in Markers(packet) : packet[k] = 125
    /\ Cardinality(Markers(packet)) < PACKET_SIZE
    /\ Len(written) > PACKET_SIZE + 1

\* C11: no frame marker in the output.  No byte written is 0x7E, and
\* every 0x7D written is followed by 0x5E or 0x5D.
C11_NoFrameMarkerWritten ==
    \A k \in 1..Len(written) :
        /\ written[k] # 126
        /\ written[k] = 125 =>
              (k < Len(written) /\ written[k + 1] \in {94, 93})

\* C11 witness: sendData has written a packet that holds 0x7E and 0x7D, and
\* control is back in the application's loop.
C11_Witness ==
    /\ pc = "main"
    /\ \E k \in 1..(Len(written) - 1) : written[k] = 125 /\ written[k + 1] = 94
    /\ \E k \in 1..(Len(written) - 1) : written[k] = 125 /\ written[k + 1] = 93

\* The receiver's de-stuffing rule: on 0x7D, drop it and XOR the next byte
\* with 0x20.
RECURSIVE Destuff(_)
Destuff(w) ==
    IF w = <<>> THEN <<>>
    ELSE IF Head(w) = 125 /\ Len(w) >= 2
         THEN <<BitXor(w[2], 32)>> \o Destuff(Tail(Tail(w)))
         ELSE <<Head(w)>> \o Destuff(Tail(w))

\* C12: stuffing round trip.  De-stuffing the bytes sendData wrote gives the
\* eight bytes of the packet back.
C12_StuffingRoundTrip ==
    pc \in {"send_flush", "send_txoff"} =>
        Destuff(written) = [k \in 1..PACKET_SIZE |-> packet[k - 1]]

\* C12 witness: the bytes written hold an escape, so de-stuffing has
\* something to undo.
C12_Witness ==
    /\ pc = "send_flush"
    /\ Len(written) > PACKET_SIZE
    /\ Len(Destuff(written)) = PACKET_SIZE

\* The bytes written for the checksum byte: what follows the wire image of
\* packet bytes 0..6.
ChecksumOnWire ==
    SubSeq(written, Len(WireImage(packet, PACKET_SIZE - 1)) + 1, Len(written))

\* C15 as claimed: the checksum byte is written as exactly one byte equal to
\* the checksum, also when it is 0x7E or 0x7D.
C15_Original_ChecksumWrittenRaw ==
    pc \in {"send_flush", "send_txoff"} => ChecksumOnWire = <<packet[7]>>

\* C15 amended: the checksum byte is stuffed like the seven bytes before
\* it: one byte equal to the checksum when that is neither 0x7E nor 0x7D,
\* and the two bytes 0x7D, checksum XOR 0x20 when it is.
C15_ChecksumStuffedLikeTheRest ==
    pc \in {"send_flush", "send_txoff"} =>
        /\ packet[7] = RefChecksum([packet EXCEPT ![7] = 0])
        /\ SubSeq(written, 1, Len(WireImage(packet, PACKET_SIZE - 1)))
             = WireImage(packet, PACKET_SIZE - 1)
        /\ ChecksumOnWire =
             IF packet[7] = 126 THEN <<125, 94>>
             ELSE IF packet[7] = 125 THEN <<125, 93>>
             ELSE <<packet[7]>>

\* C15 witness: a packet whose checksum is 0x7E has been written.
C15_Witness ==
    /\ pc = "send_flush"
    /\ packet[7] = 126
    /\ ChecksumOnWire = <<125, 94>>

\* C20: receiver-side verification.  The fold-carry sum over all eight
\* bytes of the built packet, checksum included, is 0xFF, so CRC run over
\* the finished packet returns 0.
C20_ReceiverSumIsFF ==
    Built =>
        /\ RefAcc(packet, PACKET_SIZE) = 255
        /\ CRC(packet) = 0

\* C20 witness: a built packet on which the sum carries, from a negative
\* value.
C20_Witness ==
    /\ Built
    /\ sVal < 0
    /\ \E k \in 0..(PACKET_SIZE - 1) : RefAcc(packet, k) + packet[k] > 255

\* C16: frame of setSensorData.  A call with idx in 0..7 is possible in
\* every state of the application's loop; it sets slot idx to (id, val),
\* leaves every other slot, the cursor, the number of sensors, the sensor id
\* and the dispatcher's state as they were, and writes nothing.
C16_SetSensorDataFrame ==
    /\ [](pc = "main" =>
            \A a \in SetAllArgs : ENABLED setSensorData(a[1], a[2], a[3]))
    /\ [][\E a \in SetAllArgs :
            /\ sensorTable'[a[1]] = [id |-> a[2], val |-> a[3]]
            /\ \A k \in (0..(MAX_SENSORS - 1)) \ {a[1]} :
                   sensorTable'[k] = sensorTable[k]
            /\ UNCHANGED <<sensorTableIdx, sensorValues, sensorId, pc,
                           written, unflushed, uartC3>>]_vars

\* C16 witness: after three answered polls the last slot and slot 0 have
\* been set, slot 0 twice or once; the cursor, slot 3, the history and the
\* bytes written by the last answer are as they were.
C16_Witness ==
    /\ sensorTable[MAX_SENSORS - 1] = [id |-> SlotId(7), val |-> U32(800)]
    /\ sensorTable[0].val = HighVal
    /\ sensorTable[3] = [id |-> 0, val |-> U32(0)]
    /\ sensorTableIdx = 3
    /\ written = <<16, 0, 0, 0, 0, 0, 0, 239>>
    /\ answers = AnswersAfter(3)

\* C17: answer content is current.  The packet built and transmitted for
\* an answered poll has type 0x10 and carries the logical id and the 32-bit
\* value the slot at the cursor holds at that moment, which are the ones
\* setSensorData wrote to it last.
C17_AnswerContentCurrent ==
    /\ (Built /\ ret = "poll") =>
          /\ packet[0] = 16
          /\ packet[1] + 256 * packet[2] = sensorTable[sensorTableIdx].id
          /\ \A k \in 0..3 : packet[3 + k] = sensorTable[sensorTableIdx].val[k]
    /\ (pc \in {"send_flush", "send_txoff"} /\ ret = "poll") =>
          Destuff(written) = [k \in 1..PACKET_SIZE |-> packet[k - 1]]

\* C17 witness: slot 0 has been answered before, the application has since
\* stored 0x800000C8 in it, and the packet of the next visit is on the wire.
C17_Witness ==
    /\ pc = "send_flush"
    /\ ret = "poll"
    /\ sensorTableIdx = 0
    /\ sensorTable[0].val = HighVal
    /\ packet[6] = 128
    /\ \E k \in 1..Len(answers) : answers[k].id = SlotId(0)

\* Is this step a read of the input byte at the head of the queue?
ReadsByte == rx # <<>> /\ rx' = Tail(rx)

SendStates ==
    {"send_build", "send_txon", "send_loop", "send_flush", "send_txoff"}

\* C18: one answer per matching poll, with activeCount > 0.  A packet's
\* transmission starts exactly in the steps that read sensorId after a 0x7E
\* read in the seek state; the transmission runs to its end, bus released,
\* before any further input byte is read; and the cursor moves exactly in
\* the step that follows the end of a transmission, by one slot.
C18_OneAnswerPerMatchingPoll ==
    [][sensorValues > 0 =>
        /\ (pc' = "send_build" /\ pc # "send_build")
             <=> (pc = "poll_wait" /\ ReadsByte /\ Head(rx) = sensorId)
        /\ ReadsByte => pc \in {"poll_avail", "poll_wait"}
        /\ (pc \in SendStates /\ pc' \notin SendStates) =>
              /\ pc = "send_txoff"
              /\ pc' = "poll_adv"
              /\ Len(written) >= PACKET_SIZE
              /\ unflushed = 0
              /\ ~TxDir'
              /\ Len(answers') = Len(answers) + 1 \/ Len(answers) = MaxLog
        /\ (pc = "poll_adv" /\ pc' # "poll_adv") =>
              /\ pc' = "poll_avail"
              /\ sensorTableIdx' = (sensorTableIdx + 1) % sensorValues
        /\ sensorTableIdx' # sensorTableIdx => pc = "poll_adv"
        /\ pc' = "poll_adv" => pc \in {"send_txoff", "poll_adv"}
      ]_vars

\* C18 witness: two polls have been answered, a non-matching poll has been
\* read since, and the cursor has moved twice.
C18_Witness ==
    /\ sensorValues > 2
    /\ Len(answers) = 2
    /\ sensorTableIdx = 2
    /\ lastRead[1] = "id"
    /\ lastRead[2] # sensorId
    /\ pc = "poll_avail"

\* C19: the byte read in SEEKING_ID is consumed as an ID byte, never as a
\* frame start.  The read leaves SEEKING_ID whatever the byte is, and
\* SEEKING_ID is entered only by a 0x7E read in the seek state; so with
\* sensorId other than 0x7E, after 0x7E, 0x7E nothing is sent, and a sensorId
\* read next is discarded in the seek state without a packet.
C19_IdByteNeverOpensFrame ==
    [][/\ (pc = "poll_wait" /\ ReadsByte) =>
              /\ pc' \in {"poll_avail", "send_build"}
              /\ pc' = "send_build" => Head(rx) = sensorId
              /\ lastRead' = <<"id", Head(rx)>>
       /\ pc' = "poll_wait" =>
              \/ pc = "poll_wait" /\ ~ReadsByte
              \/ pc = "poll_avail" /\ ReadsByte /\ Head(rx) = 126
       /\ (lastRead = <<"id", 126>> /\ sensorId # 126) =>
              /\ pc \in {"poll_avail", "main"}
              /\ pc' \in {"poll_avail", "main", "poll_wait"}
              /\ UNCHANGED <<written, unflushed, uartC3, sensorTableIdx,
                             answers>>
              /\ (ReadsByte /\ Head(rx) = sensorId) =>
                    pc' = "poll_avail" /\ lastRead' = <<"seek", sensorId>>
      ]_vars

\* C19 witness: with sensorId 6 and an active slot, 0x7E was read in the
\* seek state and 0x7E in SEEKING_ID; the dispatcher is back in the seek
\* state, nothing has been written, and the next input byte is sensorId.
C19_Witness ==
    /\ sensorId = 6
    /\ sensorValues > 0
    /\ lastRead = <<"id", 126>>
    /\ pc = "poll_avail"
    /\ rx # <<>>
    /\ Head(rx) = 6
    /\ written = <<>>
    /\ answers = <<>>

\* C14: unbounded wait for the ID byte.  In SEEKING_ID with no input byte
\* available no step of the program is possible: the only step is the
\* arrival of a byte, which leaves the dispatcher in SEEKING_ID and changes
\* nothing else.  There is no step back to the seek state.
C14_UnboundedWaitForId ==
    /\ [][(pc = "poll_wait" /\ rx = <<>>) =>
            /\ pc' = "poll_wait"
            /\ rx' # <<>>
            /\ UNCHANGED <<tableVars, uartC3, written, unflushed, frameVars,
                           lastRead, answers>>]_vars
    /\ [](pc = "poll_wait" => lastRead = <<"seek", 126>>)
    /\ []((pc = "poll_wait" /\ rx = <<>>) => ~ENABLED PollId)

\* C14 witness: 0x7E has been read in the seek state of a device with an
\* active slot, and no further byte is available.
C14_Witness ==
    /\ pc = "poll_wait"
    /\ rx = <<>>
    /\ lastRead = <<"seek", 126>>
    /\ sensorValues > 0
    /\ answers # <<>>

InPoll == pc \notin {"init", "main"}

\* C13: poll drains and returns.  poll returns only from the seek state
\* with no input byte available; and when the input is finite and every
\* 0x7E read in the seek state is eventually followed by one more input
\* byte, every call of poll eventually returns.
C13_PollDrainsAndReturns ==
    /\ [][(InPoll /\ pc' = "main") => (pc = "poll_avail" /\ rx = <<>>)]_vars
    /\ ((<>inputEnded) /\ [](pc = "poll_wait" => <>(rx # <<>>)))
          => [](InPoll => <>(pc = "main"))

\* C13 witness: the input has ended, and poll has returned after reading a
\* frame marker and an id and answering.
C13_Witness ==
    /\ inputEnded
    /\ pc = "main"
    /\ rx = <<>>
    /\ lastRead = <<"id", sensorId>>
    /\ answers # <<>>

====
